---- MODULE Spec2Model ----
(***************************************************************************)
(* A model of the knocket CHIP-8 core: src/src/mem.rs (Mem), src/src/cpu.rs *)
(* (Cpu) and src/src/chip8.rs (Chip8), driven as src/src/main.rs drives it. *)
(*                                                                          *)
(* Rust panics are modelled by the variable fault: a panic stops the        *)
(* process, so no action is enabled once fault # "none"; the other          *)
(* variables then hold what had been written when the panic was raised.     *)
(* Integer overflow on + and - panics in a build with overflow checks (the  *)
(* debug profile) and wraps otherwise (the release profile): the variable   *)
(* overflow_checks is the profile the program was built with.               *)
(***************************************************************************)
EXTENDS Integers, Sequences, FiniteSets, TLC

VARIABLES
    memory,             \* Mem.memory: [u8; MEMORY_SIZE]
    stack,              \* Mem.stack: [u16; STACK_SIZE]
    graphics,           \* Mem.graphics: [u32; GRAPHICS_HEIGHT * GRAPHICS_WIDTH]
    stack_pointer,      \* Mem.stack_pointer: usize; -1 stands for usize::MAX, -2 for usize::MAX - 1
    registers,          \* Cpu.registers: [u8; REGISTER_COUNT]
    index,              \* Cpu.index: u16
    program_counter,    \* Cpu.program_counter: u16
    delay_timer,        \* Cpu.delay_timer: u8
    keypad,             \* main's keypad: [bool; 16], the snapshot passed to run_cycle
    buffer,             \* main's buffer: Vec<u8>, the bytes passed to load_program
    fault,              \* "none", or the panic that ended the process
    overflow_checks,    \* TRUE: overflow panics (debug profile); FALSE: it wraps (release)
    load_result,        \* what the last load_program returned: "none" before the first call
    calls,              \* the number of host calls made so far, by kind
    last,               \* the last host call: its kind, the opcode it fetched, the PC it started at
    open_calls,         \* history: the calls (2NNN) not yet returned from, oldest first
    prior,              \* history: the framebuffer, registers and index before the last cycle
    delay_written       \* history: the value the last completed FX15 wrote, 0 before the first

vars == <<memory, stack, graphics, stack_pointer, registers, index, program_counter,
          delay_timer, keypad, buffer, fault, overflow_checks, load_result, calls, last,
          open_calls, prior, delay_written>>

(***************************************************************************)
(* Program constants.                                                      *)
(***************************************************************************)
MEMORY_SIZE == 4096
STACK_SIZE == 16
PROGRAM_MEMORY_START == 512
GRAPHICS_WIDTH == 64
GRAPHICS_HEIGHT == 64
DIGITS_MEMORY_START == 431
REGISTER_COUNT == 16
KEYPAD_SIZE == 16

DIGITS ==
    << 240, 144, 144, 144, 240,    \* 0
        32,  96,  32,  32, 112,    \* 1
       240,  16, 240, 128, 240,    \* 2
       240,  16, 240,  16, 240,    \* 3
       144, 144, 240,  16,  16,    \* 4
       240, 128, 240,  16, 240,    \* 5
       240, 128, 240, 144, 240,    \* 6
       240,  16,  32,  64,  64,    \* 7
       240, 144, 240, 144, 240,    \* 8
       240, 144, 240,  16, 240,    \* 9
       240, 144, 240, 144, 144,    \* A
       224, 144, 224, 144, 224,    \* B
       240, 128, 128, 128, 240,    \* C
       224, 144, 144, 144, 224,    \* D
       240, 128, 240, 128, 240,    \* E
       240, 128, 240, 128, 128 >>  \* F

(***************************************************************************)
(* Bit operations on non-negative integers, bit by bit.                    *)
(***************************************************************************)
RECURSIVE BitAnd(_, _)
BitAnd(a, b) ==
    IF a = 0 \/ b = 0 THEN 0
    ELSE (IF a % 2 = 1 /\ b % 2 = 1 THEN 1 ELSE 0) + 2 * BitAnd(a \div 2, b \div 2)

RECURSIVE BitOr(_, _)
BitOr(a, b) ==
    IF a = 0 THEN b
    ELSE IF b = 0 THEN a
    ELSE (IF a % 2 = 1 \/ b % 2 = 1 THEN 1 ELSE 0) + 2 * BitOr(a \div 2, b \div 2)

RECURSIVE BitXor(_, _)
BitXor(a, b) ==
    IF a = 0 THEN b
    ELSE IF b = 0 THEN a
    ELSE (IF a % 2 # b % 2 THEN 1 ELSE 0) + 2 * BitXor(a \div 2, b \div 2)

\* x >> n and x << n on unbounded integers; the callers truncate to the type's width
Shr(x, n) == x \div (2 ^ n)
Shl(x, n) == x * (2 ^ n)

\* `as u8`, `as u16`: truncation to the low bits
AsU8(x) == x % 256
AsU16(x) == x % 65536

(***************************************************************************)
(* The machine as a value: the fields of Mem and Cpu, and the panic state. *)
(***************************************************************************)
Machine ==
    [ memory |-> memory, stack |-> stack, graphics |-> graphics,
      stack_pointer |-> stack_pointer, registers |-> registers, index |-> index,
      program_counter |-> program_counter, delay_timer |-> delay_timer,
      fault |-> fault ]

\* panic!(...) or a failed bounds / overflow check: the first panic wins
Panic(m, what) == IF m.fault = "none" THEN [m EXCEPT !.fault = what] ELSE m

InBounds(i, len) == i >= 0 /\ i < len

(***************************************************************************)
(* Mem (src/src/mem.rs).                                                   *)
(***************************************************************************)
\* Mem::new: everything zeroed, then the glyph table copied to [0x1AF, 0x1FF)
NewMemory ==
    [a \in 0 .. MEMORY_SIZE - 1 |->
        IF a >= DIGITS_MEMORY_START /\ a < 511 THEN DIGITS[a - DIGITS_MEMORY_START + 1] ELSE 0]
NewStack == [i \in 0 .. STACK_SIZE - 1 |-> 0]
NewGraphics == [i \in 0 .. GRAPHICS_HEIGHT * GRAPHICS_WIDTH - 1 |-> 0]

\* mutant of LoadFits: the capacity check with >= for >
LoadFits_Exclusive(program) == ~(PROGRAM_MEMORY_START + Len(program) >= MEMORY_SIZE)

\* Mem::load_program: the capacity check, then the copy to memory[0x200 ..]
LoadFits(program) == ~(PROGRAM_MEMORY_START + Len(program) > MEMORY_SIZE)

load_program(mem, program) ==
    IF ~LoadFits(program)
    THEN [memory |-> mem, result |-> "Err"]
    ELSE [memory |->
            [a \in 0 .. MEMORY_SIZE - 1 |->
                IF a >= PROGRAM_MEMORY_START /\ a < PROGRAM_MEMORY_START + Len(program)
                THEN program[a - PROGRAM_MEMORY_START + 1]
                ELSE mem[a]],
          result |-> "Ok"]

\* Mem::fetch_opcode: two bytes, the first one the high byte; both reads are bounds-checked
FetchOpcodeInBounds(at) == InBounds(at, MEMORY_SIZE) /\ InBounds(at + 1, MEMORY_SIZE)
fetch_opcode(mem, at) == BitOr(AsU16(Shl(mem[at], 8)), mem[at + 1])

\* Mem::fetch; the caller checks InBounds(at, MEMORY_SIZE) first, as the slice index does
fetch(mem, at) == mem[at]

\* mutant of store: the check of the program boundary left out
store_Unchecked(m, at, value) ==
    IF m.fault # "none" THEN m
    ELSE IF ~InBounds(at, MEMORY_SIZE) THEN Panic(m, "index out of bounds")
    ELSE [m EXCEPT !.memory[at] = value]

\* Mem::store
store(m, at, value) ==
    IF m.fault # "none" THEN m
    ELSE IF at < PROGRAM_MEMORY_START THEN Panic(m, "Segmentation fault")
    ELSE IF ~InBounds(at, MEMORY_SIZE) THEN Panic(m, "index out of bounds")
    ELSE [m EXCEPT !.memory[at] = value]

\* mutant of GraphicsIndex: the coordinates wrapped to the screen
GraphicsIndex_Wrapped(x, y) == (x % GRAPHICS_WIDTH) + Shl(y % GRAPHICS_HEIGHT, 6)

\* the cell x + (y << 6) of Mem::fetch_graphics and Mem::store_graphics
GraphicsIndex(x, y) == x + Shl(y, 6)

\* Mem::fetch_graphics; the caller checks the cell is in bounds first
fetch_graphics(gfx, x, y) == AsU8(BitAnd(gfx[GraphicsIndex(x, y)], 255))

\* mutant of store_graphics: the low bit of the cell always set
store_graphics_AlwaysOn(m, x, y, val) ==
    IF m.fault # "none" THEN m
    ELSE IF ~InBounds(GraphicsIndex(x, y), GRAPHICS_HEIGHT * GRAPHICS_WIDTH)
    THEN Panic(m, "index out of bounds")
    ELSE [m EXCEPT !.graphics[GraphicsIndex(x, y)] = BitOr(val, 65281)]

\* Mem::store_graphics
store_graphics(m, x, y, val) ==
    IF m.fault # "none" THEN m
    ELSE IF ~InBounds(GraphicsIndex(x, y), GRAPHICS_HEIGHT * GRAPHICS_WIDTH)
    THEN Panic(m, "index out of bounds")
    ELSE [m EXCEPT !.graphics[GraphicsIndex(x, y)] = BitOr(val, 65280)]

\* mutant of clear_graphics: the framebuffer left as it is
clear_graphics_Keep(m) == m

\* Mem::clear_graphics
clear_graphics(m) == [m EXCEPT !.graphics = [i \in DOMAIN m.graphics |-> 0]]

\* Mem::push: stack_pointer += 1, then stack[stack_pointer] = addr
push(m, addr) ==
    IF m.fault # "none" THEN m
    ELSE IF m.stack_pointer = -1 /\ overflow_checks THEN Panic(m, "attempt to add with overflow")
    ELSE LET sp == m.stack_pointer + 1
             m1 == [m EXCEPT !.stack_pointer = sp]
         IN  IF ~InBounds(sp, STACK_SIZE) THEN Panic(m1, "index out of bounds")
             ELSE [m1 EXCEPT !.stack[sp] = addr]

\* Mem::peek; the caller checks InBounds(stack_pointer, STACK_SIZE) first
peek(stk, sp) == stk[sp]

\* mutant of pop: the value read at the decremented stack pointer
pop_AfterDecrement(m) ==
    IF m.fault # "none" THEN [m |-> m, value |-> 0]
    ELSE IF m.stack_pointer = 0 /\ overflow_checks
    THEN [m |-> Panic(m, "attempt to subtract with overflow"), value |-> 0]
    ELSE LET sp == m.stack_pointer - 1
             m1 == [m EXCEPT !.stack_pointer = sp]
         IN  IF ~InBounds(sp, STACK_SIZE)
             THEN [m |-> Panic(m1, "index out of bounds"), value |-> 0]
             ELSE [m |-> m1, value |-> m1.stack[sp]]

\* Mem::pop: stack_pointer -= 1, then the value of stack[stack_pointer + 1].
\* The result is the machine after the call and the value returned.
pop(m) ==
    IF m.fault # "none" THEN [m |-> m, value |-> 0]
    ELSE IF m.stack_pointer = 0 /\ overflow_checks
    THEN [m |-> Panic(m, "attempt to subtract with overflow"), value |-> 0]
    ELSE LET sp == m.stack_pointer - 1
             m1 == [m EXCEPT !.stack_pointer = sp]
         IN  IF sp = -1 /\ overflow_checks
             THEN [m |-> Panic(m1, "attempt to add with overflow"), value |-> 0]
             ELSE IF ~InBounds(sp + 1, STACK_SIZE)
             THEN [m |-> Panic(m1, "index out of bounds"), value |-> 0]
             ELSE [m |-> m1, value |-> m1.stack[sp + 1]]

\* mutant of get_address_for_digit: glyphs taken to be 4 bytes apart
get_address_for_digit_FourRows(digit) == AsU16(DIGITS_MEMORY_START + 4 * digit)

\* Mem::get_address_for_digit
get_address_for_digit(digit) == AsU16(DIGITS_MEMORY_START + 5 * digit)

(***************************************************************************)
(* Cpu (src/src/cpu.rs).                                                   *)
(***************************************************************************)
\* a u16 sum: it panics on overflow in a build with overflow checks and wraps otherwise
AddU16(m, a, b) ==
    IF a + b > 65535 /\ overflow_checks
    THEN [m |-> Panic(m, "attempt to add with overflow"), value |-> 0]
    ELSE [m |-> m, value |-> AsU16(a + b)]

\* Cpu::increase_program_counter
increase_program_counter(m, count) ==
    IF m.fault # "none" THEN m
    ELSE LET r == AddU16(m, m.program_counter, count)
         IN  IF r.m.fault # "none" THEN r.m ELSE [m EXCEPT !.program_counter = r.value]

\* Cpu::set_register_value
set_register_value(m, register_index, value) ==
    IF m.fault # "none" THEN m
    ELSE IF register_index > REGISTER_COUNT
    THEN Panic(m, "Cannot set register value on index above 15")
    ELSE IF ~InBounds(register_index, REGISTER_COUNT)
    THEN Panic(m, "index out of bounds: the len is 16 but the index is 16")
    ELSE [m EXCEPT !.registers[register_index] = value]

\* the operand fields of an opcode
OpFamily(opcode) == BitAnd(opcode, 61440)           \* opcode & 0xF000
OpX_FiveBits(opcode) == BitAnd(Shr(opcode, 8), 31)  \* mutant of OpX: the mask 0x1F
OpX(opcode) == BitAnd(Shr(opcode, 8), 15)           \* opcode >> 8 & 0x0F
OpY(opcode) == BitAnd(Shr(opcode, 4), 15)           \* opcode >> 4 & 0x0F
OpNNN(opcode) == BitAnd(opcode, 4095)               \* opcode & 0x0FFF
OpNN(opcode) == BitAnd(opcode, 255)                 \* opcode & 0x00FF
OpN(opcode) == BitAnd(opcode, 15)                   \* opcode & 0x000F

\* (result & 0xFF) as u8 of an i32 result in (-65536, 65536): the low byte of its
\* two's-complement representation
LowByteI32(result) == AsU8(BitAnd(IF result < 0 THEN result + 65536 ELSE result, 255))

\* keypad.iter().position(|&x| x), scanning from key k on: the first pressed key
\* found, or KEYPAD_SIZE for None
RECURSIVE PositionFrom(_, _)
PositionFrom(kp, k) ==
    IF k >= KEYPAD_SIZE THEN KEYPAD_SIZE
    ELSE IF kp[k] THEN k
    ELSE PositionFrom(kp, k + 1)

\* mutant of Position: the highest pressed key
Position_Highest(kp) ==
    IF \E k \in 0 .. KEYPAD_SIZE - 1 : kp[k]
    THEN CHOOSE k \in 0 .. KEYPAD_SIZE - 1 : kp[k] /\ \A j \in k + 1 .. KEYPAD_SIZE - 1 : ~kp[j]
    ELSE KEYPAD_SIZE

Position(kp) == PositionFrom(kp, 0)

\* low nibble 0 of family 0x0: clear screen
ClearScreen(m) == increase_program_counter(clear_graphics(m), 2)

\* low nibble 0xE of family 0x0: return from subroutine
Return(m) ==
    LET r == pop(m)
    IN  IF r.m.fault # "none" THEN r.m
        ELSE increase_program_counter([r.m EXCEPT !.program_counter = r.value], 2)

\* mutant of Exec0: dispatch on the low byte, 0xE0 and 0xEE
Exec0_LowByte(m, opcode) ==
    CASE OpNN(opcode) = 224 -> ClearScreen(m)
      [] OpNN(opcode) = 238 -> Return(m)
      [] OTHER -> m

\* family 0x0: dispatch on the low nibble
Exec0(m, opcode) ==
    CASE OpN(opcode) = 0 -> ClearScreen(m)
      [] OpN(opcode) = 14 -> Return(m)
      [] OTHER -> m

\* mutant of Exec1: the opcode not masked to its low 12 bits
Exec1_Unmasked(m, opcode) == [m EXCEPT !.program_counter = opcode]

\* 1NNN: jump
Exec1(m, opcode) == [m EXCEPT !.program_counter = OpNNN(opcode)]

\* 2NNN: call
Exec2(m, opcode) ==
    LET m1 == push(m, m.program_counter)
    IN  IF m1.fault # "none" THEN m1 ELSE [m1 EXCEPT !.program_counter = OpNNN(opcode)]

\* 3XNN: skip if VX = NN
Exec3(m, opcode) ==
    IF OpNN(opcode) = m.registers[OpX(opcode)]
    THEN increase_program_counter(m, 4)
    ELSE increase_program_counter(m, 2)

\* 4XNN: skip if VX # NN
Exec4(m, opcode) ==
    IF OpNN(opcode) # m.registers[OpX(opcode)]
    THEN increase_program_counter(m, 4)
    ELSE increase_program_counter(m, 2)

\* 5XY?: skip if VX = VY
Exec5(m, opcode) ==
    IF m.registers[OpX(opcode)] = m.registers[OpY(opcode)]
    THEN increase_program_counter(m, 4)
    ELSE increase_program_counter(m, 2)

\* 6XNN: VX := NN
Exec6(m, opcode) ==
    increase_program_counter(set_register_value(m, OpX(opcode), OpNN(opcode)), 2)

\* 7XNN: VX := (VX + NN) & 0xFF
Exec7(m, opcode) ==
    increase_program_counter(
        set_register_value(m, OpX(opcode),
            AsU8(BitAnd(m.registers[OpX(opcode)] + OpNN(opcode), 255))), 2)

\* mutant of AddRegisters: the flag written before the sum
AddRegisters_FlagFirst(m, x, y) ==
    LET result == m.registers[x] + m.registers[y]
        carry == IF result > 255 THEN 1 ELSE 0
    IN  set_register_value(
            set_register_value(m, 15, carry), x, AsU8(BitAnd(result, 255)))

\* 8XY4: VX := VX + VY as u32, low byte; then VF := carry
AddRegisters(m, x, y) ==
    LET result == m.registers[x] + m.registers[y]
        carry == IF result > 255 THEN 1 ELSE 0
    IN  set_register_value(
            set_register_value(m, x, AsU8(BitAnd(result, 255))), 15, carry)

\* mutant of SubRegisters: the flag set when the difference is not positive
SubRegisters_FlagOnZero(m, x, y) ==
    LET result == m.registers[x] - m.registers[y]
        carry == IF result <= 0 THEN 1 ELSE 0
    IN  set_register_value(
            set_register_value(m, x, LowByteI32(result)), 15, carry)

\* 8XY5: VX := VX - VY as i32, low byte; then VF := (result < 0)
SubRegisters(m, x, y) ==
    LET result == m.registers[x] - m.registers[y]
        carry == IF result < 0 THEN 1 ELSE 0
    IN  set_register_value(
            set_register_value(m, x, LowByteI32(result)), 15, carry)

\* 8XY6: VF := VX & 1; then VX := VX >> 1, VX read again after VF was written
ShiftRight(m, x) ==
    LET m1 == set_register_value(m, 15, BitAnd(m.registers[x], 1))
    IN  set_register_value(m1, x, Shr(m1.registers[x], 1))

\* 8XY7: VX := VY - VX as i32, low byte; then VF := (result < 0)
SubRegistersReverse(m, x, y) ==
    LET result == m.registers[y] - m.registers[x]
        carry == IF result < 0 THEN 1 ELSE 0
    IN  set_register_value(
            set_register_value(m, x, LowByteI32(result)), 15, carry)

\* 8XYE: VF := (VX & 0x80) >> 7; then VX := VX << 1, VX read again after VF was written
ShiftLeft(m, x) ==
    LET m1 == set_register_value(m, 15, Shr(BitAnd(m.registers[x], 128), 7))
    IN  set_register_value(m1, x, AsU8(Shl(m1.registers[x], 1)))

\* family 0x8: the sub-operation on VX, VY selected by the low nibble
Alu(m, opcode) ==
    LET x == OpX(opcode)
        y == OpY(opcode)
        vx == m.registers[x]
        vy == m.registers[y]
    IN  CASE OpN(opcode) = 0 -> set_register_value(m, x, vy)
          [] OpN(opcode) = 1 -> set_register_value(m, x, BitOr(vx, vy))
          [] OpN(opcode) = 2 -> set_register_value(m, x, BitAnd(vx, vy))
          [] OpN(opcode) = 3 -> set_register_value(m, x, BitXor(vx, vy))
          [] OpN(opcode) = 4 -> AddRegisters(m, x, y)
          [] OpN(opcode) = 5 -> SubRegisters(m, x, y)
          [] OpN(opcode) = 6 -> ShiftRight(m, x)
          [] OpN(opcode) = 7 -> SubRegistersReverse(m, x, y)
          [] OpN(opcode) = 14 -> ShiftLeft(m, x)
          [] OTHER -> m

\* mutant of Exec8: the program counter not advanced
Exec8_NoAdvance(m, opcode) == Alu(m, opcode)

Exec8(m, opcode) == increase_program_counter(Alu(m, opcode), 2)

\* mutant of Exec9: the skip taken when the registers are equal
Exec9_SkipOnEqual(m, opcode) ==
    IF m.registers[OpX(opcode)] = m.registers[OpY(opcode)]
    THEN increase_program_counter(m, 4)
    ELSE increase_program_counter(m, 2)

\* 9XY?: skip if VX # VY
Exec9(m, opcode) ==
    IF m.registers[OpX(opcode)] = m.registers[OpY(opcode)]
    THEN increase_program_counter(m, 2)
    ELSE increase_program_counter(m, 4)

\* ANNN: index := NNN
ExecA(m, opcode) == increase_program_counter([m EXCEPT !.index = OpNNN(opcode)], 2)

\* BNNN: jump to NNN + V0
ExecB(m, opcode) ==
    LET r == AddU16(m, OpNNN(opcode), m.registers[0])
    IN  IF r.m.fault # "none" THEN r.m ELSE [m EXCEPT !.program_counter = r.value]

\* CXNN: VX := rand & NN
ExecC(m, opcode, rand) ==
    increase_program_counter(
        [m EXCEPT !.registers[OpX(opcode)] = BitAnd(rand, OpNN(opcode))], 2)

\* DXYN, the inner loop: for xline in 0..8, the bits of one sprite row from xline on
RECURSIVE DrawBits(_, _, _, _, _, _)
DrawBits(m, x, y, pixel, yline, xline) ==
    IF m.fault # "none" \/ xline >= 8 THEN m
    ELSE LET x_coord_index == AsU16(x + xline)
             y_coord_index == AsU16(y + yline)
         IN  IF BitAnd(pixel, Shr(128, xline)) # 0
             THEN IF ~InBounds(GraphicsIndex(x_coord_index, y_coord_index),
                               GRAPHICS_HEIGHT * GRAPHICS_WIDTH)
                  THEN Panic(m, "index out of bounds")
                  ELSE LET current_pixel ==
                               fetch_graphics(m.graphics, x_coord_index, y_coord_index)
                           m1 == IF current_pixel = 1
                                 THEN [m EXCEPT !.registers[15] = 1] ELSE m
                           m2 == store_graphics(m1, x_coord_index, y_coord_index,
                                                BitXor(current_pixel, 1))
                       IN  DrawBits(m2, x, y, pixel, yline, xline + 1)
             ELSE DrawBits(m, x, y, pixel, yline, xline + 1)

\* DXYN, the outer loop: for yline in 0..height, the rows from yline on
RECURSIVE DrawRows(_, _, _, _, _)
DrawRows(m, x, y, height, yline) ==
    IF m.fault # "none" \/ yline >= height THEN m
    ELSE LET r == AddU16(m, m.index, yline)
         IN  IF r.m.fault # "none" THEN r.m
             ELSE IF ~InBounds(r.value, MEMORY_SIZE) THEN Panic(m, "index out of bounds")
             ELSE DrawRows(DrawBits(m, x, y, fetch(m.memory, r.value), yline, 0),
                           x, y, height, yline + 1)

\* mutant of ExecD: VF not reset before the rows are drawn
ExecD_FlagKept(m, opcode) ==
    LET x == m.registers[OpX(opcode)]
        y == m.registers[OpY(opcode)]
        height == AsU8(OpN(opcode))
    IN  increase_program_counter(DrawRows(m, x, y, height, 0), 2)

\* DXYN: draw the N-row sprite at memory[index ..] at (VX, VY)
ExecD(m, opcode) ==
    LET x == m.registers[OpX(opcode)]
        y == m.registers[OpY(opcode)]
        height == AsU8(OpN(opcode))
    IN  increase_program_counter(
            DrawRows([m EXCEPT !.registers[15] = 0], x, y, height, 0), 2)

\* mutant of SkipIfPressed: the program counter advanced by 2 when the key is up
SkipIfPressed_Advance(m, key_index, kp) ==
    IF ~InBounds(key_index, KEYPAD_SIZE) THEN Panic(m, "index out of bounds")
    ELSE IF kp[key_index] THEN increase_program_counter(m, 4)
    ELSE increase_program_counter(m, 2)

\* EX9E: skip if the key whose number is VX is pressed
SkipIfPressed(m, key_index, kp) ==
    IF ~InBounds(key_index, KEYPAD_SIZE) THEN Panic(m, "index out of bounds")
    ELSE IF kp[key_index] THEN increase_program_counter(m, 4) ELSE m

\* EXA1: skip if the key whose number is VX is not pressed
SkipIfNotPressed(m, key_index, kp) ==
    IF ~InBounds(key_index, KEYPAD_SIZE) THEN Panic(m, "index out of bounds")
    ELSE IF ~kp[key_index] THEN increase_program_counter(m, 4) ELSE m

\* mutant of ExecE: the keypad indexed with VX before the dispatch
ExecE_KeyChecked(m, opcode, kp) ==
    LET key_index == m.registers[OpX(opcode)]
    IN  IF ~InBounds(key_index, KEYPAD_SIZE) THEN Panic(m, "index out of bounds")
        ELSE CASE OpNN(opcode) = 158 -> SkipIfPressed(m, key_index, kp)
               [] OpNN(opcode) = 161 -> SkipIfNotPressed(m, key_index, kp)
               [] OTHER -> m

\* family 0xE: dispatch on the low byte
ExecE(m, opcode, kp) ==
    LET key_index == m.registers[OpX(opcode)]
    IN  CASE OpNN(opcode) = 158 -> SkipIfPressed(m, key_index, kp)
          [] OpNN(opcode) = 161 -> SkipIfNotPressed(m, key_index, kp)
          [] OTHER -> m

\* FX55, the loop: for (index, addr) in (self.index .. end).enumerate(), from addr on
RECURSIVE StoreRegisters(_, _, _, _)
StoreRegisters(m, i, addr, end) ==
    IF m.fault # "none" \/ addr >= end THEN m
    ELSE StoreRegisters(store(m, addr, m.registers[i]), i + 1, addr + 1, end)

\* FX65, the loop: for index in 0 .. register_index + 1, from i on
RECURSIVE LoadRegisters(_, _, _)
LoadRegisters(m, i, end) ==
    IF m.fault # "none" \/ i >= end THEN m
    ELSE LET r == AddU16(m, m.index, i)
         IN  IF r.m.fault # "none" THEN r.m
             ELSE IF ~InBounds(r.value, MEMORY_SIZE) THEN Panic(m, "index out of bounds")
             ELSE LoadRegisters([m EXCEPT !.registers[i] = fetch(m.memory, r.value)],
                                i + 1, end)

\* self.index += count
AddToIndex(m, count) ==
    IF m.fault # "none" THEN m
    ELSE LET r == AddU16(m, m.index, count)
         IN  IF r.m.fault # "none" THEN r.m ELSE [m EXCEPT !.index = r.value]

\* mutant of GetDelayTimer: the timer counted down by the read
GetDelayTimer_CountDown(m, x) ==
    increase_program_counter(
        set_register_value(
            [m EXCEPT !.delay_timer = IF @ > 0 THEN @ - 1 ELSE 0], x, m.delay_timer), 2)

\* FX07: VX := delay timer
GetDelayTimer(m, x) ==
    increase_program_counter(set_register_value(m, x, m.delay_timer), 2)

\* mutant of WaitForKey: the program counter advanced when no key is pressed
WaitForKey_Advance(m, x, kp) ==
    IF Position(kp) < KEYPAD_SIZE
    THEN increase_program_counter(set_register_value(m, x, AsU8(Position(kp))), 2)
    ELSE increase_program_counter(m, 2)

\* mutant of WaitForKey: the key stored but the program counter not advanced
WaitForKey_KeepsWaiting(m, x, kp) ==
    IF Position(kp) < KEYPAD_SIZE
    THEN set_register_value(m, x, AsU8(Position(kp)))
    ELSE m

\* FX0A: wait for a key
WaitForKey(m, x, kp) ==
    IF Position(kp) < KEYPAD_SIZE
    THEN increase_program_counter(set_register_value(m, x, AsU8(Position(kp))), 2)
    ELSE m

\* FX15: delay timer := VX
SetDelayTimer(m, x) ==
    increase_program_counter([m EXCEPT !.delay_timer = m.registers[x]], 2)

\* mutant of SetSoundTimer: the program counter advanced
SetSoundTimer_Advance(m, x) == increase_program_counter(m, 2)

\* FX18: the empty arm
SetSoundTimer(m, x) == m

\* FX1E: index += VX
AddRegisterToIndex(m, x) ==
    increase_program_counter(AddToIndex(m, m.registers[x]), 2)

\* FX29: index := the address of the glyph of VX
SetIndexToDigit(m, x) ==
    increase_program_counter(
        [m EXCEPT !.index = get_address_for_digit(m.registers[x])], 2)

\* mutant of StoreBcd: the tens not reduced modulo 10
StoreBcd_TensUnreduced(m, x) ==
    LET register_value == m.registers[x]
        m1 == store(m, m.index, (register_value \div 100) % 10)
        m2 == store(m1, m.index + 1, register_value \div 10)
        m3 == store(m2, m.index + 2, register_value % 10)
    IN  increase_program_counter(m3, 2)

\* FX33: the decimal digits of VX to memory[index .. index + 2]
StoreBcd(m, x) ==
    LET register_value == m.registers[x]
        m1 == store(m, m.index, (register_value \div 100) % 10)
        m2 == store(m1, m.index + 1, (register_value \div 10) % 10)
        m3 == store(m2, m.index + 2, register_value % 10)
    IN  increase_program_counter(m3, 2)

\* FX55: V0 ..= VX to memory[index ..], then index += X + 1
StoreBlock(m, x) ==
    LET e1 == AddU16(m, m.index, x)
        e2 == AddU16(e1.m, e1.value, 1)
        m1 == IF e2.m.fault # "none" THEN e2.m
              ELSE StoreRegisters(m, 0, m.index, e2.value)
    IN  increase_program_counter(AddToIndex(m1, x + 1), 2)

\* mutant of LoadBlock: register X itself not loaded
LoadBlock_Exclusive(m, x) ==
    increase_program_counter(AddToIndex(LoadRegisters(m, 0, x), x + 1), 2)

\* FX65: memory[index ..] to V0 ..= VX, then index += X + 1
LoadBlock(m, x) ==
    increase_program_counter(AddToIndex(LoadRegisters(m, 0, x + 1), x + 1), 2)

\* family 0xF: dispatch on the low byte
ExecF(m, opcode, kp) ==
    LET x == OpX(opcode)
    IN  CASE OpNN(opcode) = 7 -> GetDelayTimer(m, x)
          [] OpNN(opcode) = 10 -> WaitForKey(m, x, kp)
          [] OpNN(opcode) = 21 -> SetDelayTimer(m, x)
          [] OpNN(opcode) = 24 -> SetSoundTimer(m, x)
          [] OpNN(opcode) = 30 -> AddRegisterToIndex(m, x)
          [] OpNN(opcode) = 41 -> SetIndexToDigit(m, x)
          [] OpNN(opcode) = 51 -> StoreBcd(m, x)
          [] OpNN(opcode) = 85 -> StoreBlock(m, x)
          [] OpNN(opcode) = 101 -> LoadBlock(m, x)
          [] OTHER -> m

\* Cpu::execute_cycle: fetch the opcode at the program counter, dispatch on its family
execute_cycle(m, kp, rand) ==
    IF m.fault # "none" THEN m
    ELSE IF ~FetchOpcodeInBounds(m.program_counter) THEN Panic(m, "index out of bounds")
    ELSE LET opcode == fetch_opcode(m.memory, m.program_counter)
         IN  CASE OpFamily(opcode) = 0 -> Exec0(m, opcode)
               [] OpFamily(opcode) = 4096 -> Exec1(m, opcode)
               [] OpFamily(opcode) = 8192 -> Exec2(m, opcode)
               [] OpFamily(opcode) = 12288 -> Exec3(m, opcode)
               [] OpFamily(opcode) = 16384 -> Exec4(m, opcode)
               [] OpFamily(opcode) = 20480 -> Exec5(m, opcode)
               [] OpFamily(opcode) = 24576 -> Exec6(m, opcode)
               [] OpFamily(opcode) = 28672 -> Exec7(m, opcode)
               [] OpFamily(opcode) = 32768 -> Exec8(m, opcode)
               [] OpFamily(opcode) = 36864 -> Exec9(m, opcode)
               [] OpFamily(opcode) = 40960 -> ExecA(m, opcode)
               [] OpFamily(opcode) = 45056 -> ExecB(m, opcode)
               [] OpFamily(opcode) = 49152 -> ExecC(m, opcode, rand)
               [] OpFamily(opcode) = 53248 -> ExecD(m, opcode)
               [] OpFamily(opcode) = 57344 -> ExecE(m, opcode, kp)
               [] OpFamily(opcode) = 61440 -> ExecF(m, opcode, kp)
               [] OTHER -> m

(***************************************************************************)
(* The host (src/src/main.rs, and the set-up of the tests of cpu.rs):      *)
(* registers preset with set_register_value, the program loaded once with  *)
(* Chip8::load_program, and, when that returned Ok, Chip8::run_cycle once  *)
(* per frame with the keypad snapshot of that frame. main sets the log     *)
(* level to Error, so the trace! arguments of Chip8::load_program and of   *)
(* execute_cycle are never evaluated.                                      *)
(***************************************************************************)
MaxSets == 1        \* set_register_value calls, made before the program is loaded
MaxCycles == 17     \* run_cycle calls

\* a program image from its 16-bit instructions, big-endian
Rom(ops) ==
    [i \in 1 .. 2 * Len(ops) |->
        IF i % 2 = 1 THEN Shr(ops[(i + 1) \div 2], 8) ELSE ops[i \div 2] % 256]

ProgRecurse == Rom(<< \H2200 >>)
ProgNested == Rom(<< \H2206, \H1202, \H0000, \H220A, \H00EE, \H00EE >>)
ProgReturn == Rom(<< \H00EE >>)
ProgCallOdd == Rom(<< \H2001 >>)
ProgJumpOffset == Rom(<< \H60FF, \HBFFF >>)
ProgKeys == Rom(<< \HF20A, \HE29E, \H1204, \HE2A1, \H1208, \H120A >>)
ProgBcdLow == Rom(<< \HF033 >>)
ProgBcd == Rom(<< \HA300, \H60FE, \HF033, \HF265, \H1208 >>)
ProgBcdGlyph == Rom(<< \H6003, \HF029, \HF033 >>)
ProgBcdEnd == Rom(<< \HAFFE, \HF033 >>)
ProgBlockLow == Rom(<< \HA1FF, \HF155 >>)
ProgJumpLast == Rom(<< \H1FFE >>)
ProgAlu ==
    Rom(<< \H6012, \H61F0, \H8010, \H8011, \H8012, \H8013, \H8014, \H8015, \H8016,
           \H8017, \H801E, \H8018, \H7001, \HC1FF, \H121C >>)
ProgMisc ==
    Rom(<< \H00E0, \HA300, \H6005, \HF015, \HF107, \HF01E, \HF029, \HD015, \H6101,
           \HA310, \HF155, \HA310, \HF165, \HF018 >>)
ProgSkips ==
    Rom(<< \H3000, \H0000, \H4000, \H5120, \H0000, \H9120, \H6101, \H9120, \H0000,
           \H3001, \H4001, \H0000, \H5120, \H1218 >>)
ProgUnrecognized0 == Rom(<< \H0001 >>)
ProgUnrecognizedE == Rom(<< \HE0FF >>)
ProgUnrecognizedF == Rom(<< \HF0FF >>)
ProgDrawTwice ==
    Rom(<< \H6003, \HF029, \H6102, \HD015, \HD015, \HD015, \H6005, \HD015, \HD015, \H00E0 >>)
ProgDrawFlag ==
    Rom(<< \HF029, \HD005, \HD005, \HD000, \HD005, \HD005, \HA300, \HD005 >>)
ProgTimer ==
    Rom(<< \HF107, \H6007, \HF015, \H6009, \H00E0, \HF107, \HF015, \HF207 >>)
ProgBlock ==
    Rom(<< \H6011, \H6122, \H6233, \HA300, \HF255, \H6000, \H6100, \H6200, \HA300,
           \HF165, \HAFF0, \HFF55, \HA300, \HFF65, \HF065 >>)
ProgDrawWrap == Rom(<< \H603D, \H6101, \HA200, \HD012 >>)
ProgDrawFar == Rom(<< \H60C8, \H6101, \HA200, \HD012 >>)
ProgDrawFault == Rom(<< \H603C, \H613F, \HA200, \HD012 >>)
ProgDecode0 == Rom(<< \H2208, \H0AB0, \H0123, \H0000, \HF029, \HD005, \H0FFE >>)
ProgFull == [i \in 1 .. 3584 |-> IF i \in {1, 3583} THEN 31 ELSE IF i \in {2, 3584} THEN 254 ELSE 0]
ProgTooLarge == [i \in 1 .. 3585 |-> 255]

Programs ==
    { ProgRecurse, ProgNested, ProgReturn, ProgCallOdd, ProgJumpOffset, ProgKeys,
      ProgBcdLow, ProgBcd, ProgBcdGlyph, ProgBcdEnd, ProgBlockLow, ProgJumpLast, ProgAlu,
      ProgMisc, ProgSkips, ProgUnrecognized0, ProgUnrecognizedE, ProgUnrecognizedF,
      ProgDrawTwice, ProgDrawFlag, ProgTimer, ProgBlock, ProgDrawWrap, ProgDrawFar,
      ProgDrawFault, ProgDecode0, ProgFull, ProgTooLarge }

\* a keypad snapshot with exactly the keys of `pressed` down
Snapshot(pressed) == [k \in 0 .. KEYPAD_SIZE - 1 |-> k \in pressed]
Keypads == { Snapshot({}), Snapshot({15}), Snapshot({5, 9}) }

\* the values rand::random::<u8>() is drawn from
Rands == { 0, 165, 255 }

\* the arguments of the set_register_value calls
SetIndices == { 2, 16, 17 }
SetValues == { 255 }

\* the opcode the next cycle fetches, -1 when the fetch is out of bounds
Opcode ==
    IF FetchOpcodeInBounds(program_counter) THEN fetch_opcode(memory, program_counter) ELSE -1

\* how execute_cycle decodes an opcode
IsCall(opcode) == opcode >= 0 /\ OpFamily(opcode) = 8192
IsReturn(opcode) == opcode >= 0 /\ OpFamily(opcode) = 0 /\ OpN(opcode) = 14
IsSetDelayTimer(opcode) == opcode >= 0 /\ OpFamily(opcode) = 61440 /\ OpNN(opcode) = 21

Init ==
    /\ memory = NewMemory
    /\ stack = NewStack
    /\ graphics = NewGraphics
    /\ stack_pointer = 0
    /\ registers = [r \in 0 .. REGISTER_COUNT - 1 |-> 0]
    /\ index = 0
    /\ program_counter = 512
    /\ delay_timer = 0
    /\ keypad = Snapshot({})
    /\ buffer = <<>>
    /\ fault = "none"
    /\ overflow_checks \in BOOLEAN
    /\ load_result = "none"
    /\ calls = [set |-> 0, cycle |-> 0]
    /\ last = [op |-> "new", opcode |-> -1, pc |-> -1]
    /\ open_calls = <<>>
    /\ prior = [graphics |-> graphics, registers |-> registers, index |-> index]
    /\ delay_written = 0

\* the machine m becomes the state
Becomes(m) ==
    /\ memory' = m.memory
    /\ stack' = m.stack
    /\ graphics' = m.graphics
    /\ stack_pointer' = m.stack_pointer
    /\ registers' = m.registers
    /\ index' = m.index
    /\ program_counter' = m.program_counter
    /\ delay_timer' = m.delay_timer
    /\ fault' = m.fault

\* cpu.set_register_value(register_index, value)
SetRegisterValue ==
    /\ fault = "none"
    /\ calls.set < MaxSets /\ load_result = "none"
    /\ \E register_index \in SetIndices, value \in SetValues :
          /\ Becomes(set_register_value(Machine, register_index, value))
          /\ last' = [op |-> "set_register_value", opcode |-> register_index, pc |-> program_counter]
    /\ calls' = [calls EXCEPT !.set = @ + 1]
    /\ UNCHANGED <<keypad, buffer, overflow_checks, load_result, open_calls, prior,
                   delay_written>>

\* chip8.load_program(&buffer).expect("Could not load program")
LoadProgram ==
    /\ fault = "none"
    /\ load_result = "none"
    /\ \E program \in Programs :
          LET r == load_program(memory, program)
          IN  /\ buffer' = program
              /\ memory' = r.memory
              /\ load_result' = r.result
              /\ fault' = IF r.result = "Err" THEN "Could not load program" ELSE fault
              /\ last' = [op |-> "load_program", opcode |-> Len(program), pc |-> program_counter]
    /\ UNCHANGED <<calls, stack, graphics, stack_pointer, registers, index, program_counter,
                   delay_timer, keypad, overflow_checks, open_calls, prior, delay_written>>

\* chip8.run_cycle(&keypad) with the snapshot kp, rand the byte CXNN would draw: what
\* it does to the machine, and the history of it
CycleEffect(kp, rand) ==
    /\ keypad' = kp
    /\ \E m \in { execute_cycle(Machine, kp, rand) } : Becomes(m)
    /\ last' = [op |-> "run_cycle", opcode |-> Opcode, pc |-> program_counter]
    /\ open_calls' =
          IF fault' # "none" THEN open_calls
          ELSE IF IsCall(Opcode)
          THEN Append(open_calls, [site |-> program_counter, depth |-> stack_pointer])
          ELSE IF IsReturn(Opcode) /\ open_calls # <<>>
          THEN SubSeq(open_calls, 1, Len(open_calls) - 1)
          ELSE open_calls
    /\ prior' = [graphics |-> graphics, registers |-> registers, index |-> index]
    /\ delay_written' =
          IF fault' = "none" /\ IsSetDelayTimer(Opcode)
          THEN registers[OpX(Opcode)] ELSE delay_written
    /\ UNCHANGED <<buffer, overflow_checks, load_result>>

\* one run_cycle call, counted
Cycle(kp, rand) ==
    /\ CycleEffect(kp, rand)
    /\ calls' = [calls EXCEPT !.cycle = @ + 1]

\* update_keymap(...); chip8.run_cycle(&keypad)
RunCycle ==
    /\ fault = "none"
    /\ load_result = "Ok"
    /\ calls.cycle < MaxCycles
    /\ \E kp \in Keypads, rand \in Rands : Cycle(kp, rand)

Next == SetRegisterValue \/ LoadProgram \/ RunCycle

Spec == Init /\ [][Next]_vars

(***************************************************************************)
(* The tests of cpu.rs: a new machine, registers and the index register    *)
(* preset, a program of one instruction loaded at 0x200, and execute_cycle *)
(* called on it with no key pressed.                                       *)
(***************************************************************************)
UnitCycles == 1     \* execute_cycle calls of one test

\* the register values the tests preset
Bytes == { 0, 1, 2, 3, 127, 128, 254, 255 }

\* the (X, Y) operand pairs of the tests
RegisterPairs == { <<0, 1>>, <<3, 3>>, <<15, 1>>, <<1, 15>>, <<14, 15>>, <<15, 15>> }

\* registers all zero but VX = vx and VY = vy (vy when X = Y)
WithRegisters(x, vx, y, vy) ==
    [r \in 0 .. REGISTER_COUNT - 1 |-> IF r = y THEN vy ELSE IF r = x THEN vx ELSE 0]

\* 8XY4, 8XY5, 8XY6, 8XY7, 8XYE on every pair of preset values
AluTests ==
    { [opcode |-> 32768 + 256 * p[1] + 16 * p[2] + n,
       registers |-> WithRegisters(p[1], vx, p[2], vy), index |-> 0] :
          p \in RegisterPairs, n \in {4, 5, 6, 7, 14}, vx \in Bytes, vy \in Bytes }

\* 3XNN, 4XNN on every preset value and immediate; 5XY0, 9XY0 on every pair of values
SkipTests ==
    { [opcode |-> f + 256 * x + nn, registers |-> WithRegisters(x, vx, x, vx), index |-> 0] :
          f \in {12288, 16384}, x \in {0, 7, 15}, nn \in Bytes, vx \in Bytes }
    \cup
    { [opcode |-> f + 256 * p[1] + 16 * p[2],
       registers |-> WithRegisters(p[1], vx, p[2], vy), index |-> 0] :
          f \in {20480, 36864}, p \in RegisterPairs, vx \in Bytes, vy \in Bytes }

\* FX33 on every value of VX, at the first and at the last index that can hold three digits
BcdTests ==
    { [opcode |-> 61491 + 256 * x, registers |-> WithRegisters(x, vx, x, vx), index |-> i] :
          x \in {0, 15}, vx \in 0 .. 255, i \in {PROGRAM_MEMORY_START, MEMORY_SIZE - 3} }

\* FX1E on every preset value, with the index register low and at the top of its range
IndexTests ==
    { [opcode |-> 61470 + 256 * x, registers |-> WithRegisters(x, vx, x, vx), index |-> i] :
          x \in {0, 15}, vx \in Bytes, i \in {0, 4095, 65280, 65281, 65535} }

\* opcodes that match no arm of their family
UnrecognizedOpcodes ==
    { \H0001, \H00E1, \H000F, \H8018, \H8019, \H801F, \HE000, \HE09F, \HE0A0, \HE0FF,
      \HF000, \HF008, \HF034, \HF0FF }

UnrecognizedTests ==
    { [opcode |-> op + 256 * x, registers |-> WithRegisters(x, vx, x, vx), index |-> 0] :
          op \in UnrecognizedOpcodes, x \in {0, 15}, vx \in {0, 255} }

UnitTests == AluTests \cup SkipTests \cup BcdTests \cup IndexTests \cup UnrecognizedTests

InitUnit ==
    \E t \in UnitTests :
        /\ buffer = Rom(<< t.opcode >>)
        /\ memory = load_program(NewMemory, buffer).memory
        /\ stack = NewStack
        /\ graphics = NewGraphics
        /\ stack_pointer = 0
        /\ registers = t.registers
        /\ index = t.index
        /\ program_counter = 512
        /\ delay_timer = 0
        /\ keypad = Snapshot({})
        /\ fault = "none"
        /\ overflow_checks \in BOOLEAN
        /\ load_result = "Ok"
        /\ calls = [set |-> 0, cycle |-> 0]
        /\ last = [op |-> "load_program", opcode |-> Len(buffer), pc |-> program_counter]
        /\ open_calls = <<>>
        /\ prior = [graphics |-> graphics, registers |-> registers, index |-> index]
        /\ delay_written = 0

\* cpu.execute_cycle(&mut mem, &keypad)
UnitCycle ==
    /\ fault = "none"
    /\ calls.cycle < UnitCycles
    /\ Cycle(Snapshot({}), 0)

NextUnit == UnitCycle

SpecUnit == InitUnit /\ [][NextUnit]_vars

(***************************************************************************)
(* The frame loop of main on a program that waits for a key: the loop runs *)
(* for as long as the window is open, one run_cycle per frame with that    *)
(* frame's keypad snapshot. The count of cycles stops at WaitCycles, the   *)
(* loop does not. A user who eventually presses a key is the fairness of   *)
(* PressedCycle.                                                           *)
(***************************************************************************)
WaitCycles == 7     \* frames that are counted

ProgWait == Rom(<< \H6101, \HF20A, \HF30A, \H1202 >>)

InitWait ==
    /\ buffer = ProgWait
    /\ memory = load_program(NewMemory, buffer).memory
    /\ stack = NewStack
    /\ graphics = NewGraphics
    /\ stack_pointer = 0
    /\ registers = [r \in 0 .. REGISTER_COUNT - 1 |-> 0]
    /\ index = 0
    /\ program_counter = 512
    /\ delay_timer = 0
    /\ keypad = Snapshot({})
    /\ fault = "none"
    /\ overflow_checks \in BOOLEAN
    /\ load_result = "Ok"
    /\ calls = [set |-> 0, cycle |-> 0]
    /\ last = [op |-> "load_program", opcode |-> Len(buffer), pc |-> program_counter]
    /\ open_calls = <<>>
    /\ prior = [graphics |-> graphics, registers |-> registers, index |-> index]
    /\ delay_written = 0

\* a frame of the loop with the snapshot kp
FrameCycle(kp) ==
    /\ fault = "none"
    /\ CycleEffect(kp, 0)
    /\ calls' = [calls EXCEPT !.cycle = IF @ < WaitCycles THEN @ + 1 ELSE @]

\* a frame with no key down
IdleCycle == FrameCycle(Snapshot({}))

\* a frame with a key down
PressedCycle == \E kp \in Keypads \ {Snapshot({})} : FrameCycle(kp)

NextWait == IdleCycle \/ PressedCycle

SpecWait == InitWait /\ [][NextWait]_vars /\ WF_vars(PressedCycle)

(***************************************************************************)
(* Properties.                                                             *)
(***************************************************************************)
\* a step that is one run_cycle call
CycleStep == calls'.cycle = calls.cycle + 1

\* a step that is the load_program call
LoadStep == load_result = "none" /\ load_result' # "none"

IsJump(opcode) == opcode >= 0 /\ OpFamily(opcode) = 4096
IsJumpOffset(opcode) == opcode >= 0 /\ OpFamily(opcode) = 45056
IsSkip(opcode) ==
    /\ opcode >= 0
    /\ \/ OpFamily(opcode) \in {12288, 16384, 20480, 36864}
       \/ OpFamily(opcode) = 57344 /\ OpNN(opcode) \in {158, 161}
IsWaitForKey(opcode) == opcode >= 0 /\ OpFamily(opcode) = 61440 /\ OpNN(opcode) = 10
IsSoundTimer(opcode) == opcode >= 0 /\ OpFamily(opcode) = 61440 /\ OpNN(opcode) = 24
IsUnrecognized0EF(opcode) ==
    /\ opcode >= 0
    /\ \/ OpFamily(opcode) = 0 /\ OpN(opcode) \notin {0, 14}
       \/ OpFamily(opcode) = 57344 /\ OpNN(opcode) \notin {158, 161}
       \/ OpFamily(opcode) = 61440 /\ OpNN(opcode) \notin {7, 10, 21, 24, 30, 41, 51, 85, 101}

\* C1 as stated: once a program is loaded, the program counter is always an even
\* address within [0x200, 0x1000). (Stated for the build with overflow checks, where a
\* return on the empty stack stops the machine instead of continuing at address 2.)
C1_EvenInProgramMemory ==
    (load_result = "Ok" /\ fault = "none" /\ overflow_checks) =>
        /\ program_counter % 2 = 0
        /\ program_counter >= 512 /\ program_counter < 4096

\* C1, amended: the program counter is always within [0, 0x10FE]: a jump or a call sets
\* it to NNN whatever NNN is (odd, or below 0x200), a jump with offset to NNN + V0, and
\* the +2 / +4 of the other instructions start from an address the fetch accepted.
C1_ProgramCounterRange == program_counter >= 0 /\ program_counter <= 4350

\* the call of test_execute_cycle_0x2xxx: PC = 0x0001 after 2001
C1_Witness ==
    /\ fault = "none" /\ last.op = "run_cycle" /\ last.opcode = 8193
    /\ program_counter = 1

\* the jump-class opcodes C2 excepts: jump, call, return, jump with offset, the skips
IsControlFlow(opcode) ==
    IsJump(opcode) \/ IsCall(opcode) \/ IsReturn(opcode) \/ IsJumpOffset(opcode) \/ IsSkip(opcode)

\* C2 as stated: a completed cycle of any opcode that is not a jump, call, return, jump
\* with offset or skip leaves the program counter exactly 2 higher.
C2_AdvancesByTwo ==
    [][(CycleStep /\ fault' = "none" /\ Opcode >= 0 /\ ~IsControlFlow(Opcode))
          => program_counter' = program_counter + 2]_vars

\* C2, amended: a completed cycle of any opcode that is not a jump, call, return, jump
\* with offset or skip, nor wait-for-key (FX0A), nor FX18, nor an unrecognized opcode of
\* family 0x0, 0xE or 0xF, leaves the program counter exactly 2 higher; FX18 and those
\* unrecognized opcodes leave it unchanged, and so does wait-for-key with no key pressed.
C2_AdvancesByTwoAmended ==
    [][(CycleStep /\ fault' = "none" /\ Opcode >= 0 /\ ~IsControlFlow(Opcode))
          => IF IsSoundTimer(Opcode) \/ IsUnrecognized0EF(Opcode)
                \/ (IsWaitForKey(Opcode) /\ \A k \in 0 .. KEYPAD_SIZE - 1 : ~keypad'[k])
             THEN program_counter' = program_counter
             ELSE program_counter' = program_counter + 2]_vars

\* an unrecognized sub-opcode of family 0x8 (8018) has advanced the program counter by 2
C2_Witness ==
    /\ fault = "none" /\ last.op = "run_cycle" /\ last.opcode = 32792
    /\ program_counter = last.pc + 2

\* C3 as stated: the stack holds 16 return addresses: a call made with fewer than 16
\* entries on the stack succeeds and adds one entry, and only the push of a 17th entry
\* is fatal.
C3_SixteenCallsSucceed ==
    [][(CycleStep /\ IsCall(Opcode) /\ stack_pointer >= 0 /\ stack_pointer < STACK_SIZE)
          => (fault' = "none" /\ stack_pointer' = stack_pointer + 1)]_vars

\* C4 as stated: a return executed on the empty stack is a fatal fault, and the program
\* counter and the stack pointer get no new value.
C4_ReturnOnEmptyIsFatal ==
    [][(CycleStep /\ IsReturn(Opcode) /\ stack_pointer = 0)
          => (fault' # "none" /\ program_counter' = program_counter
                /\ stack_pointer' = stack_pointer)]_vars

\* C5: a call at address A pushes A (peek then gives A, the entries below are untouched)
\* and sets PC to NNN without adding 2; a return that has an open call sets PC to the
\* address of the most recent open call plus 2 and brings the stack pointer back to its
\* value before that call, leaving the stack entries as they are.
C5_CallReturnLifo ==
    [][(CycleStep /\ fault' = "none") =>
          /\ IsCall(Opcode) =>
                /\ stack_pointer' = stack_pointer + 1
                /\ peek(stack', stack_pointer') = program_counter
                /\ \A i \in DOMAIN stack : i # stack_pointer' => stack'[i] = stack[i]
                /\ program_counter' = OpNNN(Opcode)
          /\ (IsReturn(Opcode) /\ open_calls # <<>>) =>
                /\ program_counter' = open_calls[Len(open_calls)].site + 2
                /\ stack_pointer' = open_calls[Len(open_calls)].depth
                /\ stack' = stack]_vars

\* two nested calls (at 0x200 and at 0x206) and both returns done: the inner return came
\* back to 0x208, the outer one to 0x202
C5_Witness ==
    /\ fault = "none" /\ last.op = "run_cycle" /\ IsReturn(last.opcode)
    /\ calls.cycle = 4 /\ program_counter = 514 /\ stack_pointer = 0
    /\ stack[1] = 512 /\ stack[2] = 518 /\ open_calls = <<>>

IsStoreBcd(opcode) == opcode >= 0 /\ OpFamily(opcode) = 61440 /\ OpNN(opcode) = 51
IsStoreBlock(opcode) == opcode >= 0 /\ OpFamily(opcode) = 61440 /\ OpNN(opcode) = 85
IsSkipIfPressed(opcode) == opcode >= 0 /\ OpFamily(opcode) = 57344 /\ OpNN(opcode) = 158
IsSkipIfNotPressed(opcode) == opcode >= 0 /\ OpFamily(opcode) = 57344 /\ OpNN(opcode) = 161

\* the k-th decimal digit of v, k = 0 for the hundreds, 1 for the tens, 2 for the ones
DecimalDigit(v, k) ==
    CASE k = 0 -> v \div 100 [] k = 1 -> (v \div 10) % 10 [] OTHER -> v % 10

\* C6: store-BCD (FX33) and store-register-block (FX55) with the index register below
\* 0x200 end in the fault of Mem::store and leave every memory byte unchanged; with the
\* index at or above 0x200 every byte they store at an address below 0x1000 is read
\* back at that address, and the cycle completes when all their addresses are below
\* 0x1000.
C6_StoreBelowProgramMemory ==
    [][CycleStep =>
          /\ ((IsStoreBcd(Opcode) \/ IsStoreBlock(Opcode)) /\ index < PROGRAM_MEMORY_START) =>
                (fault' = "Segmentation fault" /\ memory' = memory)
          /\ (IsStoreBcd(Opcode) /\ index >= PROGRAM_MEMORY_START) =>
                /\ \A k \in 0 .. 2 :
                      index + k < MEMORY_SIZE =>
                          fetch(memory', index + k) = DecimalDigit(registers[OpX(Opcode)], k)
                /\ index + 2 < MEMORY_SIZE => fault' = "none"
          /\ (IsStoreBlock(Opcode) /\ index >= PROGRAM_MEMORY_START) =>
                /\ \A i \in 0 .. OpX(Opcode) :
                      index + i < MEMORY_SIZE => fetch(memory', index + i) = registers[i]
                /\ index + OpX(Opcode) < MEMORY_SIZE => fault' = "none"]_vars

\* FX55 with the index register at 0x1FF has ended in the fault of Mem::store
C6_Witness ==
    /\ fault = "Segmentation fault" /\ last.op = "run_cycle" /\ IsStoreBlock(last.opcode)
    /\ index = 511 /\ memory[511] = 0 /\ memory[512] = 161

\* C7: load_program returns Err exactly when 0x200 + len(bytes) > 4096, and then leaves
\* memory unchanged; otherwise it returns Ok, memory[0x200 + i] = bytes[i] for every i,
\* and every other memory byte, the stack, the framebuffer and the CPU state are
\* unchanged.
C7_LoadProgram ==
    [][LoadStep =>
          /\ (load_result' = "Err") <=> (512 + Len(buffer') > 4096)
          /\ load_result' \in {"Ok", "Err"}
          /\ load_result' = "Err" => memory' = memory
          /\ load_result' = "Ok" =>
                \A a \in 0 .. 4095 :
                    memory'[a] = IF a >= 512 /\ a - 512 < Len(buffer')
                                 THEN buffer'[a - 512 + 1] ELSE memory[a]
          /\ UNCHANGED <<stack, stack_pointer, graphics, registers, index,
                         program_counter, delay_timer>>]_vars

\* a program of 3584 bytes, which fills memory exactly, has been loaded
C7_Witness ==
    /\ load_result = "Ok" /\ last.op = "load_program" /\ Len(buffer) = 3584
    /\ memory[4095] = 254 /\ memory[511] = 0 /\ memory[510] = 128

NoKeyPressed(kp) == \A k \in 0 .. KEYPAD_SIZE - 1 : ~kp[k]

\* the lowest index among the pressed keys of a snapshot with a pressed key
LowestPressed(kp) ==
    CHOOSE k \in 0 .. KEYPAD_SIZE - 1 : kp[k] /\ \A j \in 0 .. KEYPAD_SIZE - 1 : kp[j] => k <= j

\* C8: a cycle at wait-for-key (FX0A) with no key pressed in the snapshot of that cycle
\* completes and leaves the program counter, the registers, the index register, the
\* delay timer, memory, the stack and the framebuffer unchanged.
C8_WaitForKeyNoKey ==
    [][(CycleStep /\ IsWaitForKey(Opcode) /\ NoKeyPressed(keypad')) =>
          /\ fault' = "none"
          /\ UNCHANGED <<program_counter, registers, index, delay_timer, memory, stack,
                         stack_pointer, graphics>>]_vars

\* three cycles at F20A with no key pressed: the machine is where it started
C8_Witness ==
    /\ fault = "none" /\ last.op = "run_cycle" /\ IsWaitForKey(last.opcode)
    /\ calls.cycle = 3 /\ NoKeyPressed(keypad)
    /\ program_counter = 512 /\ registers[2] = 0

\* C9: a cycle at wait-for-key (FX0A) with a key pressed stores the lowest index among
\* the pressed keys into register X and advances PC by 2, changing nothing else.
C9_WaitForKeyPressed ==
    [][(CycleStep /\ IsWaitForKey(Opcode) /\ ~NoKeyPressed(keypad')) =>
          /\ fault' = "none"
          /\ registers' = [registers EXCEPT ![OpX(Opcode)] = LowestPressed(keypad')]
          /\ program_counter' = program_counter + 2
          /\ UNCHANGED <<index, delay_timer, memory, stack, stack_pointer, graphics>>]_vars

\* F20A with keys 5 and 9 pressed: V2 = 5
C9_Witness ==
    /\ fault = "none" /\ last.op = "run_cycle" /\ IsWaitForKey(last.opcode)
    /\ keypad[5] /\ keypad[9] /\ registers[2] = 5 /\ program_counter = last.pc + 2

\* C10: for EX9E and EXA1 with VX in 0..15 the cycle completes, the PC advances by 4
\* when keypad[VX] is pressed (EX9E), respectively not pressed (EXA1), and is unchanged
\* otherwise; nothing else changes.
C10_SkipOnKey ==
    [][(CycleStep /\ (IsSkipIfPressed(Opcode) \/ IsSkipIfNotPressed(Opcode))
          /\ registers[OpX(Opcode)] \in 0 .. 15) =>
          /\ fault' = "none"
          /\ program_counter' =
                IF keypad'[registers[OpX(Opcode)]] <=> IsSkipIfPressed(Opcode)
                THEN program_counter + 4 ELSE program_counter
          /\ UNCHANGED <<registers, index, delay_timer, memory, stack, stack_pointer,
                         graphics>>]_vars

\* E29E with key V2 not pressed: the PC has not moved
C10_Witness ==
    /\ fault = "none" /\ last.op = "run_cycle" /\ IsSkipIfPressed(last.opcode)
    /\ ~keypad[registers[2]] /\ program_counter = last.pc

IsSkipCompare(opcode) ==
    opcode >= 0 /\ OpFamily(opcode) \in {12288, 16384, 20480, 36864}
IsAdd(opcode) == opcode >= 0 /\ OpFamily(opcode) = 32768 /\ OpN(opcode) = 4
IsSub(opcode) == opcode >= 0 /\ OpFamily(opcode) = 32768 /\ OpN(opcode) = 5
IsSubReverse(opcode) == opcode >= 0 /\ OpFamily(opcode) = 32768 /\ OpN(opcode) = 7
IsShiftRight(opcode) == opcode >= 0 /\ OpFamily(opcode) = 32768 /\ OpN(opcode) = 6
IsShiftLeft(opcode) == opcode >= 0 /\ OpFamily(opcode) = 32768 /\ OpN(opcode) = 14
IsDraw(opcode) == opcode >= 0 /\ OpFamily(opcode) = 53248
IsClearScreen(opcode) == opcode >= 0 /\ OpFamily(opcode) = 0 /\ OpN(opcode) = 0
IsGetDelayTimer(opcode) == opcode >= 0 /\ OpFamily(opcode) = 61440 /\ OpNN(opcode) = 7
IsLoadBlock(opcode) == opcode >= 0 /\ OpFamily(opcode) = 61440 /\ OpNN(opcode) = 101

\* the skip condition of 3XNN, 4XNN, 5XY0, 9XY0 on the registers regs
SkipCondition(opcode, regs) ==
    CASE OpFamily(opcode) = 12288 -> regs[OpX(opcode)] = OpNN(opcode)
      [] OpFamily(opcode) = 16384 -> regs[OpX(opcode)] # OpNN(opcode)
      [] OpFamily(opcode) = 20480 -> regs[OpX(opcode)] = regs[OpY(opcode)]
      [] OTHER -> regs[OpX(opcode)] # regs[OpY(opcode)]

C13_SubRegisters ==
    [][(CycleStep /\ (IsSub(Opcode) \/ IsSubReverse(Opcode))) =>
          LET x == OpX(Opcode)
              vx == registers[x]
              vy == registers[OpY(Opcode)]
              difference == IF IsSub(Opcode) THEN vx - vy ELSE vy - vx
          IN  /\ fault' = "none"
              /\ registers'[15] = (IF difference < 0 THEN 1 ELSE 0)
              /\ x # 15 => registers'[x] = (difference + 256) % 256
              /\ (vx = vy /\ x # 15) => (registers'[x] = 0 /\ registers'[15] = 0)]_vars

\* 8017 with V0 = 2 and V1 = 1: VY - VX = -1, so V0 = 255 and VF = 1
C13_Witness ==
    /\ fault = "none" /\ last.op = "run_cycle" /\ last.opcode = 32791
    /\ prior.registers[0] = 2 /\ prior.registers[1] = 1
    /\ registers[0] = 255 /\ registers[15] = 1

\* C14 as stated: after 8XY6 on any register X in 0..15 register 15 holds the least
\* significant bit of VX's value before the instruction, and after 8XYE bit 7 of that
\* value; register X (X # 15, where it is not the flag) holds the value before shifted
\* one bit right, respectively one bit left with the low 8 bits kept.
C14_ShiftFlags ==
    [][(CycleStep /\ (IsShiftRight(Opcode) \/ IsShiftLeft(Opcode))) =>
          LET x == OpX(Opcode)
              vx == registers[x]
          IN  /\ fault' = "none"
              /\ registers'[15] = (IF IsShiftRight(Opcode) THEN vx % 2 ELSE vx \div 128)
              /\ x # 15 =>
                    registers'[x] =
                        (IF IsShiftRight(Opcode) THEN vx \div 2 ELSE (2 * vx) % 256)]_vars

PixelOn(gfx, cell) == fetch_graphics(gfx, cell, 0) = 1

\* bit xline of row yline of the sprite at memory[index ..] is set
SpriteBit(yline, xline) == BitAnd(memory[index + yline], Shr(128, xline)) # 0

\* the next cycle executes the draw the last cycle executed: the same DXYN, with the
\* same index register, VX and VY, X and Y not 15
SameDrawAsLast ==
    /\ IsDraw(Opcode) /\ last.op = "run_cycle" /\ last.opcode = Opcode
    /\ OpX(Opcode) # 15 /\ OpY(Opcode) # 15
    /\ prior.index = index
    /\ prior.registers[OpX(Opcode)] = registers[OpX(Opcode)]
    /\ prior.registers[OpY(Opcode)] = registers[OpY(Opcode)]

\* C15: the second of two equal draws in a row that both complete brings every
\* framebuffer pixel back to the on/off value it had before the first; when the
\* framebuffer was all off before the first and the sprite has a set bit, every pixel
\* is off after the second, register 15 is 0 after the first and 1 after the second.
C15_DrawTwice ==
    [][(CycleStep /\ SameDrawAsLast /\ fault' = "none") =>
          /\ \A cell \in DOMAIN graphics :
                PixelOn(graphics', cell) <=> PixelOn(prior.graphics, cell)
          /\ ( /\ \A cell \in DOMAIN graphics : ~PixelOn(prior.graphics, cell)
               /\ \E yline \in 0 .. OpN(Opcode) - 1, xline \in 0 .. 7 : SpriteBit(yline, xline) )
             => /\ \A cell \in DOMAIN graphics : ~PixelOn(graphics', cell)
                /\ registers[15] = 0
                /\ registers'[15] = 1]_vars

\* the glyph of 3 drawn twice at (3, 2) on the cleared framebuffer: the pixel (3, 2) was
\* on after the first draw, every pixel is off after the second, and VF went from 0 to 1
C15_Witness ==
    /\ fault = "none" /\ last.op = "run_cycle" /\ last.opcode = 53269 /\ calls.cycle = 5
    /\ registers[0] = 3 /\ registers[1] = 2
    /\ PixelOn(prior.graphics, 131) /\ graphics[131] = 65280
    /\ \A cell \in DOMAIN graphics : ~PixelOn(graphics, cell)
    /\ prior.registers[15] = 0 /\ registers[15] = 1

\* C16: after a draw that completes register 15 is 1 if and only if a set sprite bit
\* toggled a pixel that was on before the draw, and 0 otherwise (height 0 and the
\* all-zero sprite included), whatever register 15 held before.
C16_DrawCollisionFlag ==
    [][(CycleStep /\ IsDraw(Opcode) /\ fault' = "none") =>
          registers'[15] =
              (IF \E yline \in 0 .. OpN(Opcode) - 1, xline \in 0 .. 7 :
                     /\ SpriteBit(yline, xline)
                     /\ PixelOn(graphics,
                                GraphicsIndex(registers[OpX(Opcode)] + xline,
                                              registers[OpY(Opcode)] + yline))
               THEN 1 ELSE 0)]_vars

\* the glyph of 3 drawn at (5, 2) over the one at (3, 2): the pixels (5, 2) and (6, 2)
\* collided and went off, the later pixels (7, 2) and (8, 2) went on, and VF is 1
C16_Witness ==
    /\ fault = "none" /\ last.op = "run_cycle" /\ last.opcode = 53269 /\ calls.cycle = 8
    /\ registers[0] = 5 /\ prior.registers[15] = 0 /\ registers[15] = 1
    /\ PixelOn(prior.graphics, 133) /\ ~PixelOn(graphics, 133)
    /\ ~PixelOn(prior.graphics, 136) /\ PixelOn(graphics, 136)

\* C17: only clear-screen and draw-sprite change the framebuffer: set_register_value,
\* load_program and a cycle of any other opcode leave it as it was; clear-screen
\* completes, sets every cell to off and advances the PC by 2.
C17_FramebufferFrame ==
    [][ /\ ~CycleStep => graphics' = graphics
        /\ (CycleStep /\ ~IsClearScreen(Opcode) /\ ~IsDraw(Opcode)) => graphics' = graphics
        /\ (CycleStep /\ IsClearScreen(Opcode)) =>
              /\ fault' = "none"
              /\ \A cell \in DOMAIN graphics : graphics'[cell] = 0
              /\ program_counter' = program_counter + 2 ]_vars

\* 00E0 executed on a framebuffer showing the glyph of 3: every cell is off
C17_Witness ==
    /\ fault = "none" /\ last.op = "run_cycle" /\ last.opcode = 224 /\ calls.cycle = 10
    /\ PixelOn(prior.graphics, 131)
    /\ \A cell \in DOMAIN graphics : graphics[cell] = 0
    /\ program_counter = last.pc + 2

\* C18: the delay timer changes only in a cycle executing FX15, which sets it to VX; no
\* other step changes it, and FX07 reads the value the last FX15 wrote, 0 if there was
\* none.
C18_DelayTimer ==
    [][ /\ (CycleStep /\ IsSetDelayTimer(Opcode)) =>
              (fault' = "none" /\ delay_timer' = registers[OpX(Opcode)])
        /\ ~(CycleStep /\ IsSetDelayTimer(Opcode)) => delay_timer' = delay_timer
        /\ (CycleStep /\ IsGetDelayTimer(Opcode)) =>
              (fault' = "none" /\ registers'[OpX(Opcode)] = delay_written) ]_vars

\* F107 three cycles after F015 wrote 7, V0 changed to 9 since: V1 = 7
C18_Witness ==
    /\ fault = "none" /\ last.op = "run_cycle" /\ last.opcode = 61703 /\ calls.cycle = 6
    /\ registers[0] = 9 /\ registers[1] = 7 /\ delay_timer = 7

\* C19: FX33 with the index register I in [0x200, 0xFFD] completes and writes h, t, o
\* to memory[I], memory[I+1], memory[I+2], each a decimal digit and 100h + 10t + o = VX;
\* no other memory byte, no register and not the index register change, and the PC
\* advances by 2.
C19_StoreBcd ==
    [][(CycleStep /\ IsStoreBcd(Opcode) /\ index >= 512 /\ index <= 4093) =>
          LET h == memory'[index]
              t == memory'[index + 1]
              o == memory'[index + 2]
          IN  /\ fault' = "none"
              /\ h \in 0 .. 9 /\ t \in 0 .. 9 /\ o \in 0 .. 9
              /\ 100 * h + 10 * t + o = registers[OpX(Opcode)]
              /\ \A a \in DOMAIN memory :
                    a \notin index .. index + 2 => memory'[a] = memory[a]
              /\ UNCHANGED <<registers, index, delay_timer, stack, stack_pointer, graphics>>
              /\ program_counter' = program_counter + 2]_vars

\* FF33 with VF = 209 and the index register at 0xFFD: 2, 0, 9 in the last three bytes
C19_Witness ==
    /\ fault = "none" /\ last.op = "run_cycle" /\ last.opcode = 65331
    /\ registers[15] = 209 /\ index = 4093
    /\ memory[4093] = 2 /\ memory[4094] = 0 /\ memory[4095] = 9

\* C20: FX55 copies registers 0..X to memory[I .. I+X] and changes no other byte and no
\* register; FX65 copies memory[I .. I+X] to registers 0..X and changes no other
\* register and no byte; both complete when their addresses are in memory (and, for
\* FX55, not below 0x200), and then the index register is I + X + 1 and the PC has
\* advanced by 2.
C20_RegisterBlocks ==
    [][CycleStep =>
          LET x == OpX(Opcode)
          IN  /\ (IsStoreBlock(Opcode) /\ index >= 512 /\ index + x < 4096) => fault' = "none"
              /\ (IsLoadBlock(Opcode) /\ index + x < 4096) => fault' = "none"
              /\ (IsStoreBlock(Opcode) /\ fault' = "none") =>
                    /\ \A i \in 0 .. x : memory'[index + i] = registers[i]
                    /\ \A a \in DOMAIN memory :
                          a \notin index .. index + x => memory'[a] = memory[a]
                    /\ registers' = registers
                    /\ index' = index + x + 1
                    /\ program_counter' = program_counter + 2
              /\ (IsLoadBlock(Opcode) /\ fault' = "none") =>
                    /\ \A i \in 0 .. x : registers'[i] = memory[index + i]
                    /\ \A r \in x + 1 .. REGISTER_COUNT - 1 : registers'[r] = registers[r]
                    /\ memory' = memory
                    /\ index' = index + x + 1
                    /\ program_counter' = program_counter + 2]_vars

\* V0..V2 = 0x11, 0x22, 0x33 stored at 0x300 with F255, the registers zeroed, then F165
\* at 0x300: V0 and V1 hold the stored values again, V2 is still 0, the index is 0x302
C20_Witness ==
    /\ fault = "none" /\ last.op = "run_cycle" /\ last.opcode = 61797 /\ calls.cycle = 10
    /\ prior.registers[0] = 0 /\ prior.registers[1] = 0
    /\ registers[0] = 17 /\ registers[1] = 34 /\ registers[2] = 0
    /\ memory[770] = 51 /\ index = 770

IsAddToIndex(opcode) == opcode >= 0 /\ OpFamily(opcode) = 61440 /\ OpNN(opcode) = 30
IsUnrecognized8(opcode) ==
    opcode >= 0 /\ OpFamily(opcode) = 32768 /\ OpN(opcode) \notin {0, 1, 2, 3, 4, 5, 6, 7, 14}
IsUnrecognized(opcode) == IsUnrecognized0EF(opcode) \/ IsUnrecognized8(opcode)

\* a step that is one set_register_value call
SetStep == calls'.set = calls.set + 1

\* C21 as stated: FX1E sets the index register to (index + VX) mod 65536 and completes
\* without fault also when the sum exceeds 0xFFFF; no register changes and the PC
\* advances by 2.
C21_AddToIndexWraps ==
    [][(CycleStep /\ IsAddToIndex(Opcode)) =>
          /\ fault' = "none"
          /\ index' = (index + registers[OpX(Opcode)]) % 65536
          /\ registers' = registers
          /\ program_counter' = program_counter + 2]_vars

\* C22: a cycle at an unrecognized sub-opcode of family 0x0, 0x8, 0xE or 0xF completes
\* and changes no register, not the index register, the delay timer, memory, the stack,
\* the stack pointer or the framebuffer.
C22_UnrecognizedNoOp ==
    [][(CycleStep /\ IsUnrecognized(Opcode)) =>
          /\ fault' = "none"
          /\ UNCHANGED <<registers, index, delay_timer, memory, stack, stack_pointer,
                         graphics>>]_vars

\* EFFF with VF = 255, which is no key of the keypad: the cycle completed
C22_Witness ==
    /\ fault = "none" /\ last.op = "run_cycle" /\ last.opcode = 61439
    /\ registers[15] = 255 /\ program_counter = last.pc

\* the indices of the expressions self.registers[..] and of the set_register_value calls
\* in the arm of execute_cycle that an opcode selects
RegisterIndices(opcode) ==
    LET x == OpX(opcode)
        y == OpY(opcode)
        family == OpFamily(opcode)
    IN  CASE family \in {12288, 16384, 24576, 28672, 49152, 57344} -> {x}
          [] family \in {20480, 36864} -> {x, y}
          [] family = 32768 ->
                (CASE OpN(opcode) \in {0, 1, 2, 3} -> {x, y}
                   [] OpN(opcode) \in {4, 5, 7} -> {x, y, 15}
                   [] OpN(opcode) \in {6, 14} -> {x, 15}
                   [] OTHER -> {})
          [] family = 45056 -> {0}
          [] family = 53248 -> {x, y, 15}
          [] family = 61440 ->
                (CASE OpNN(opcode) \in {7, 10, 21, 30, 41, 51} -> {x}
                   [] OpNN(opcode) \in {85, 101} -> 0 .. x
                   [] OTHER -> {})
          [] OTHER -> {}

\* the two panics of a register index out of range
RegisterFaults ==
    { "Cannot set register value on index above 15",
      "index out of bounds: the len is 16 but the index is 16" }

\* C23: every register index execute_cycle reads or writes lies in [0, 15]: no cycle
\* ends in a panic of a register index, and, for each of the 65536 opcodes, the indices
\* its arm uses, those of the loops of FX55 and FX65 and the flag register included,
\* are within 0..15 (a property of the decoder alone, evaluated in the initial state).
C23_RegisterIndices ==
    /\ last.op = "run_cycle" => fault \notin RegisterFaults
    /\ last.op = "new" =>
          \A opcode \in 0 .. 65535 : RegisterIndices(opcode) \subseteq 0 .. REGISTER_COUNT - 1

\* FF65 has loaded registers 0..15 from memory[0x300 ..] and completed
C23_Witness ==
    /\ fault = "none" /\ last.op = "run_cycle" /\ last.opcode = 65381
    /\ registers[0] = 17 /\ registers[2] = 51 /\ registers[15] = 0 /\ index = 784

\* C24 as stated: set_register_value with a register index of 16 or more ends in the
\* panic of its own range check and modifies no register; with an index in 0..15 it
\* completes and writes exactly that register.
C24_SetRegisterRange ==
    [][SetStep =>
          LET register_index == last'.opcode
          IN  /\ register_index >= REGISTER_COUNT =>
                    /\ fault' = "Cannot set register value on index above 15"
                    /\ registers' = registers
              /\ register_index < REGISTER_COUNT =>
                    /\ fault' = "none"
                    /\ \E value \in SetValues :
                          registers' = [registers EXCEPT ![register_index] = value]]_vars

\* the framebuffer cell of the sprite bit at row r, column c of the next draw
DrawCell(r, c) == (registers[OpX(Opcode)] + c) + 64 * (registers[OpY(Opcode)] + r)

\* the set bits of the sprite of the next draw, as (row, column)
SpriteBits ==
    { b \in (0 .. OpN(Opcode) - 1) \X (0 .. 7) : SpriteBit(b[1], b[2]) }

\* C25: a draw at (VX, VY) toggles exactly the cells (VX + c) + 64 * (VY + r) of the set
\* sprite bits (r, c), with no reduction modulo 64; distinct bits have distinct cells;
\* the draw completes when all those cells are below 4096 and ends in the bounds fault
\* otherwise.
C25_DrawCells ==
    [][(CycleStep /\ IsDraw(Opcode) /\ index + OpN(Opcode) <= MEMORY_SIZE) =>
          LET cells == { DrawCell(b[1], b[2]) : b \in SpriteBits }
          IN  /\ (fault' = "none") <=> (\A cell \in cells : cell < 4096)
              /\ fault' # "none" => fault' = "index out of bounds"
              /\ fault' = "none" =>
                    /\ \A cell \in cells : PixelOn(graphics', cell) # PixelOn(graphics, cell)
                    /\ \A cell \in DOMAIN graphics :
                          graphics'[cell] # graphics[cell] => cell \in cells
              /\ Cardinality(cells) = Cardinality(SpriteBits)]_vars

\* the rows 0x60, 0x3D drawn at (61, 1): the bits at x = 64, 65, 66, 68 of the second
\* row are in the cells 192, 193, 194, 196 of the row below, and cell 128 (column 0 of
\* that same row) is untouched
C25_Witness ==
    /\ fault = "none" /\ last.op = "run_cycle" /\ last.opcode = 53266
    /\ registers[0] = 61 /\ registers[1] = 1
    /\ PixelOn(graphics, 126) /\ PixelOn(graphics, 127) /\ PixelOn(graphics, 191)
    /\ PixelOn(graphics, 192) /\ PixelOn(graphics, 196)
    /\ ~PixelOn(graphics, 128) /\ ~PixelOn(graphics, 195)

\* the value of the byte at a < 0x200 right after Mem::new
ReservedByte(a) == IF a >= 431 /\ a <= 510 THEN DIGITS[a - 430] ELSE 0

Stuck ==
    /\ fault = "none" /\ load_result = "Ok"
    /\ IsUnrecognized0EF(Opcode) \/ IsSoundTimer(Opcode)

\* C27: when the PC is at an unrecognized opcode of family 0x0, 0xE or 0xF, or at
\* FX18, no later step changes the machine, so the PC is at that opcode ever after; a
\* cycle at an unrecognized sub-opcode of family 0x8 completes and advances the PC by 2.
C27_StuckForever ==
    [][ /\ Stuck =>
              /\ Stuck'
              /\ UNCHANGED <<memory, stack, graphics, stack_pointer, registers, index,
                             program_counter, delay_timer, fault>>
        /\ (CycleStep /\ IsUnrecognized8(Opcode)) =>
              (fault' = "none" /\ program_counter' = program_counter + 2) ]_vars

\* F018 fetched at the same address for the fourth cycle in a row
C27_Witness ==
    /\ fault = "none" /\ last.op = "run_cycle" /\ last.opcode = 61464
    /\ calls.cycle = 17 /\ program_counter = 538 /\ last.pc = 538 /\ Stuck

\* C28: family 0x0 is decoded on the low nibble alone: 0x0NN0 clears the framebuffer
\* and advances the PC by 2, 0x0NNE returns to the most recent open call, and every
\* other opcode of the family changes nothing.
C28_Family0Decode ==
    [][(CycleStep /\ Opcode >= 0 /\ OpFamily(Opcode) = 0) =>
          /\ OpN(Opcode) = 0 =>
                /\ fault' = "none"
                /\ \A cell \in DOMAIN graphics : graphics'[cell] = 0
                /\ program_counter' = program_counter + 2
                /\ UNCHANGED <<registers, index, delay_timer, memory, stack, stack_pointer>>
          /\ (OpN(Opcode) = 14 /\ open_calls # <<>>) =>
                /\ fault' = "none"
                /\ program_counter' = open_calls[Len(open_calls)].site + 2
                /\ stack_pointer' = open_calls[Len(open_calls)].depth
                /\ UNCHANGED <<registers, index, delay_timer, memory, stack, graphics>>
          /\ OpN(Opcode) \notin {0, 14} =>
                /\ fault' = "none"
                /\ UNCHANGED <<registers, index, delay_timer, memory, stack, stack_pointer,
                               graphics, program_counter>>]_vars

\* 0FFE has returned from the call at 0x200 and 0AB0 at 0x202 has cleared the glyph
\* drawn in the subroutine
C28_Witness ==
    /\ fault = "none" /\ last.op = "run_cycle" /\ last.opcode = 2736 /\ calls.cycle = 5
    /\ program_counter = 516 /\ stack_pointer = 0 /\ stack[1] = 512
    /\ PixelOn(prior.graphics, 0)
    /\ \A cell \in DOMAIN graphics : graphics[cell] = 0

\* the machine is waiting for a key at address a
WaitingAt(a) == fault = "none" /\ program_counter = a /\ IsWaitForKey(Opcode)

\* C29: at a wait-for-key the PC stays where it is in a cycle whose snapshot has no key
\* pressed, and a cycle whose snapshot has one advances it by 2 with the lowest pressed
\* key of that snapshot in VX, whatever the snapshots before were; so, the host
\* eventually supplying a snapshot with a key pressed, a machine waiting at A
\* eventually has PC = A + 2 and in VX a key pressed in the snapshot of that cycle.
C29_WaitForKeyEventually ==
    /\ [][(fault = "none" /\ IsWaitForKey(Opcode)) =>
             IF NoKeyPressed(keypad')
             THEN program_counter' = program_counter
             ELSE /\ program_counter' = program_counter + 2
                  /\ registers'[OpX(Opcode)] = LowestPressed(keypad')]_vars
    /\ \A a \in {514, 516} :
          WaitingAt(a) ~>
              (program_counter = a + 2 /\ keypad[registers[OpX(fetch_opcode(memory, a))]])

\* F30A left after a wait of several cycles with key 5; the wait before it, F20A, was
\* left with key 15
C29_Witness ==
    /\ fault = "none" /\ last.op = "run_cycle" /\ last.opcode = 62218 /\ calls.cycle >= 6
    /\ program_counter = 518 /\ registers[3] = 5 /\ keypad[5] /\ registers[2] = 15

====
